---- MODULE Spec2Model ----
(***************************************************************************)
(* LiveClient (src/src/packages/LiveClient.ts): the live-transcription     *)
(* websocket adapter.  It relays the socket's lifecycle callbacks as local *)
(* events, classifies inbound JSON frames by their `type` member, and      *)
(* forwards outbound audio and control messages to the socket.             *)
(*                                                                         *)
(* Text on the wire is modelled as a sequence of lexical tokens, JSON      *)
(* values as records [k, s, items]; JSON.parse and JSON.stringify are the  *)
(* recursive operators JSONparse and JSONstringify over them.              *)
(*                                                                         *)
(* The event emitter and the socket are collaborators: emit delivers the   *)
(* event to listeners that return, and the socket alone moves readyState.  *)
(***************************************************************************)
EXTENDS Integers, Sequences, FiniteSets

VARIABLES readyState, socket, lastOp, emitted, sendCalls, thrown, returned,
          cbLog, evLog

vars == <<readyState, socket, lastOp, emitted, sendCalls, thrown, returned,
          cbLog, evLog>>

(***************************************************************************)
(* Bounds of the model.                                                    *)
(***************************************************************************)
MaxBufLen == 2
MaxHist == 4

(***************************************************************************)
(* Enumerations of ../lib/enums, with the member values the specification  *)
(* gives them.                                                             *)
(***************************************************************************)
LiveConnectionState ==
  [CONNECTING |-> "Connecting", OPEN |-> "Open",
   CLOSING |-> "Closing", CLOSED |-> "Closed"]

LiveTranscriptionEvents ==
  [Open |-> "Open", Close |-> "Close", Error |-> "Error", Warning |-> "Warning",
   Metadata |-> "Metadata", Transcript |-> "Transcript",
   UtteranceEnd |-> "UtteranceEnd", SpeechStarted |-> "SpeechStarted"]

ConnectionStates ==
  {LiveConnectionState.CONNECTING, LiveConnectionState.OPEN,
   LiveConnectionState.CLOSING, LiveConnectionState.CLOSED}

(***************************************************************************)
(* Tokens of wire text.                                                    *)
(***************************************************************************)
Tok(t, s) == [t |-> t, s |-> s]
LBRACE == Tok("punct", "{")
RBRACE == Tok("punct", "}")
LBRACK == Tok("punct", "[")
RBRACK == Tok("punct", "]")
COLON == Tok("punct", ":")
COMMA == Tok("punct", ",")
StrTok(s) == Tok("str", s)
LitTok(s) == Tok("lit", s)
RawTok(s) == Tok("raw", s)

(***************************************************************************)
(* JavaScript values that JSON text denotes.                               *)
(***************************************************************************)
JNull == [k |-> "null", s |-> "", items |-> <<>>]
JTrue == [k |-> "true", s |-> "", items |-> <<>>]
JNum(digits) == [k |-> "num", s |-> digits, items |-> <<>>]
JStr(s) == [k |-> "str", s |-> s, items |-> <<>>]
JArr(items) == [k |-> "arr", s |-> "", items |-> items]
JObj(members) == [k |-> "obj", s |-> "", items |-> members]
JUndefined == [k |-> "undefined", s |-> "", items |-> <<>>]
Member(key, val) == [key |-> key, val |-> val]

HasKey(members, key) == \E i \in 1..Len(members) : members[i].key = key

\* Assignment obj[key] = val: an existing key keeps its place, takes the value.
SetMember(members, key, val) ==
  IF HasKey(members, key)
  THEN [i \in 1..Len(members) |->
          IF members[i].key = key THEN Member(key, val) ELSE members[i]]
  ELSE Append(members, Member(key, val))

(***************************************************************************)
(* JSON.parse: recursive descent over the tokens.                          *)
(***************************************************************************)
ParseFail == [ok |-> FALSE, val |-> JUndefined, rest |-> <<>>]
ParseOk(val, rest) == [ok |-> TRUE, val |-> val, rest |-> rest]

RECURSIVE ParseValue(_)
RECURSIVE ParseElements(_, _)
RECURSIVE ParseMembers(_, _)

ParseLiteral(tok) ==
  IF tok.s = "null" THEN JNull
  ELSE IF tok.s = "true" THEN JTrue
  ELSE JNum(tok.s)

ParseValue(ts) ==
  IF ts = <<>> THEN ParseFail
  ELSE LET h == Head(ts)
           r == Tail(ts)
       IN  IF h.t = "lit" THEN ParseOk(ParseLiteral(h), r)
           ELSE IF h.t = "str" THEN ParseOk(JStr(h.s), r)
           ELSE IF h = LBRACE
             THEN IF r # <<>> /\ Head(r) = RBRACE
                  THEN ParseOk(JObj(<<>>), Tail(r))
                  ELSE ParseMembers(r, <<>>)
           ELSE IF h = LBRACK
             THEN IF r # <<>> /\ Head(r) = RBRACK
                  THEN ParseOk(JArr(<<>>), Tail(r))
                  ELSE ParseElements(r, <<>>)
           ELSE ParseFail

ParseElements(ts, acc) ==
  LET v == ParseValue(ts)
  IN  IF ~v.ok \/ v.rest = <<>> THEN ParseFail
      ELSE IF Head(v.rest) = RBRACK
        THEN ParseOk(JArr(Append(acc, v.val)), Tail(v.rest))
      ELSE IF Head(v.rest) = COMMA
        THEN ParseElements(Tail(v.rest), Append(acc, v.val))
      ELSE ParseFail

ParseMembers(ts, acc) ==
  IF Len(ts) < 2 \/ Head(ts).t # "str" \/ ts[2] # COLON THEN ParseFail
  ELSE LET v == ParseValue(SubSeq(ts, 3, Len(ts)))
       IN  IF ~v.ok \/ v.rest = <<>> THEN ParseFail
           ELSE LET acc2 == SetMember(acc, Head(ts).s, v.val)
                IN  IF Head(v.rest) = RBRACE
                      THEN ParseOk(JObj(acc2), Tail(v.rest))
                    ELSE IF Head(v.rest) = COMMA
                      THEN ParseMembers(Tail(v.rest), acc2)
                    ELSE ParseFail

\* JSON.parse(text): the value, or a SyntaxError when the text is not one
\* complete JSON value.
JSONparse(text) ==
  LET p == ParseValue(text)
  IN  IF p.ok /\ p.rest = <<>>
      THEN [ok |-> TRUE, val |-> p.val, error |-> "none"]
      ELSE [ok |-> FALSE, val |-> JUndefined, error |-> "SyntaxError"]

(***************************************************************************)
(* JSON.stringify.                                                         *)
(***************************************************************************)
RECURSIVE JSONstringify(_)
RECURSIVE StringifyElements(_)
RECURSIVE StringifyMembers(_)

StringifyElements(items) ==
  IF items = <<>> THEN <<>>
  ELSE JSONstringify(Head(items)) \o
       (IF Tail(items) = <<>> THEN <<>>
        ELSE <<COMMA>> \o StringifyElements(Tail(items)))

StringifyMembers(members) ==
  IF members = <<>> THEN <<>>
  ELSE <<StrTok(Head(members).key), COLON>> \o JSONstringify(Head(members).val) \o
       (IF Tail(members) = <<>> THEN <<>>
        ELSE <<COMMA>> \o StringifyMembers(Tail(members)))

JSONstringify(v) ==
  IF v.k = "null" THEN <<LitTok("null")>>
  ELSE IF v.k = "true" THEN <<LitTok("true")>>
  ELSE IF v.k = "num" THEN <<LitTok(v.s)>>
  ELSE IF v.k = "str" THEN <<StrTok(v.s)>>
  ELSE IF v.k = "arr" THEN <<LBRACK>> \o StringifyElements(v.items) \o <<RBRACK>>
  ELSE <<LBRACE>> \o StringifyMembers(v.items) \o <<RBRACE>>

(***************************************************************************)
(* Property read data.type on a parsed value: reading a property of null   *)
(* throws a TypeError; a value without the property yields undefined.      *)
(***************************************************************************)
ThrowsOnPropertyRead(v) == v.k = "null"

GetProp(v, key) ==
  IF v.k = "obj" /\ HasKey(v.items, key)
  THEN (CHOOSE m \in {v.items[i] : i \in 1..Len(v.items)} : m.key = key).val
  ELSE JUndefined

\* data.type === name, for an event name (a string).
StrictEquals(v, name) == v.k = "str" /\ v.s = name

(***************************************************************************)
(* Payloads on the wire, raw transport events, local events.               *)
(***************************************************************************)
Data(kind, text, bytes) == [kind |-> kind, text |-> text, bytes |-> bytes]
NoData == Data("none", <<>>, <<>>)

RawEvent(kind, tag, data) == [kind |-> kind, tag |-> tag, data |-> data]
NoEvent == RawEvent("none", "", NoData)
MessageEvent(data) == RawEvent("message", "", data)

Payload(kind, json, ev, msg, err) ==
  [kind |-> kind, json |-> json, ev |-> ev, msg |-> msg, err |-> err]
PThis == Payload("this", JUndefined, NoEvent, "", "none")
PRaw(ev) == Payload("raw", JUndefined, ev, "", "none")
PText(msg) == Payload("text", JUndefined, NoEvent, msg, "none")
PJson(v) == Payload("json", v, NoEvent, "", "none")
PErrorInfo(ev, msg, err) == Payload("object", JUndefined, ev, msg, err)

Event(name, payload) == [name |-> name, payload |-> payload]

\* event.data.toString(): a string is itself; an ArrayBuffer prints as
\* "[object ArrayBuffer]" whatever bytes it holds.
ToString(data) ==
  IF data.kind = "string" THEN data.text
  ELSE <<LBRACK, RawTok("object"), RawTok("ArrayBuffer"), RBRACK>>

\* The two fixed messages of the source; its backquotes are written as
\* apostrophes here, the one character a TLA+ string cannot hold.
ParseErrorMessage == "Unable to parse 'data' as JSON."
ZeroByteMessage ==
  "Zero-byte detected, skipping. Send 'CloseStream' if trying to close the connection."

(***************************************************************************)
(* The handlers the constructor installs on the socket: each yields the    *)
(* sequence of local events it emits.                                      *)
(***************************************************************************)
OnOpen == <<Event(LiveTranscriptionEvents.Open, PThis)>>

\* OnClose, were it to hand over the adapter instead of the close event.
OnClose_AsThis(event) == <<Event(LiveTranscriptionEvents.Close, PThis)>>

OnClose(event) == <<Event(LiveTranscriptionEvents.Close, PRaw(event))>>

OnError(event) == <<Event(LiveTranscriptionEvents.Error, PRaw(event))>>

\* EmitIfType, were it to carry the discriminator instead of the object.
EmitIfType_TypeOnly(data, name) ==
  IF StrictEquals(GetProp(data, "type"), name)
  THEN <<Event(name, PJson(GetProp(data, "type")))>>
  ELSE <<>>

\* One of the four independent `if (data.type === X) emit(X, data)`.
EmitIfType(data, name) ==
  IF StrictEquals(GetProp(data, "type"), name)
  THEN <<Event(name, PJson(data))>>
  ELSE <<>>

\* OnMessageCatch, were it to swallow the failure.
OnMessageCatch_Silent(event, error) == <<>>

\* OnMessageCatch, were it to drop the caught error from the report.
OnMessageCatch_NoCause(event, error) ==
  <<Event(LiveTranscriptionEvents.Error,
          PErrorInfo(event, ParseErrorMessage, "none"))>>

\* The catch clause: one Error event with {event, message, error}.
OnMessageCatch(event, error) ==
  <<Event(LiveTranscriptionEvents.Error,
          PErrorInfo(event, ParseErrorMessage, error))>>

OnMessage(event) ==
  LET parsed == JSONparse(ToString(event.data))
  IN  IF ~parsed.ok THEN OnMessageCatch(event, parsed.error)
      ELSE IF ThrowsOnPropertyRead(parsed.val)
        THEN OnMessageCatch(event, "TypeError")
      ELSE EmitIfType(parsed.val, LiveTranscriptionEvents.Metadata) \o
           EmitIfType(parsed.val, LiveTranscriptionEvents.Transcript) \o
           EmitIfType(parsed.val, LiveTranscriptionEvents.UtteranceEnd) \o
           EmitIfType(parsed.val, LiveTranscriptionEvents.SpeechStarted)

(***************************************************************************)
(* The caller's operations: each yields what it emits, the calls it makes  *)
(* of _socket.send, and the error it throws itself.                        *)
(***************************************************************************)
Effect(em, calls, thr) == [emitted |-> em, sendCalls |-> calls, thrown |-> thr]

ConfigureMessage(config) ==
  JObj(<<Member("type", JStr("Configure")), Member("processors", config)>>)
KeepAliveMessage == JObj(<<Member("type", JStr("KeepAlive"))>>)
CloseStreamMessage == JObj(<<Member("type", JStr("CloseStream"))>>)

TextData(text) == Data("string", text, <<>>)

configure(rs, config) ==
  Effect(<<>>, <<TextData(JSONstringify(ConfigureMessage(config)))>>, "none")

keepAlive(rs) ==
  Effect(<<>>, <<TextData(JSONstringify(KeepAliveMessage))>>, "none")

\* finish, were it gated on the connection like send.
finish_Gated(rs) ==
  IF rs = LiveConnectionState.OPEN
  THEN Effect(<<>>, <<TextData(JSONstringify(CloseStreamMessage))>>, "none")
  ELSE Effect(<<>>, <<>>, "DeepgramError")

finish(rs) ==
  Effect(<<>>, <<TextData(JSONstringify(CloseStreamMessage))>>, "none")

\* getReadyState, were it to answer without reading the socket.
getReadyState_AlwaysOpen(rs) == LiveConnectionState.OPEN

getReadyState(rs) == rs

ZeroByteWarning ==
  Effect(<<Event(LiveTranscriptionEvents.Warning, PText(ZeroByteMessage))>>,
         <<>>, "none")

\* send, were it to refuse only a closed socket.
send_GateClosedOnly(rs, data) ==
  IF rs # LiveConnectionState.CLOSED
  THEN IF data.kind = "string" THEN Effect(<<>>, <<data>>, "none")
       ELSE IF data.kind = "blob" THEN Effect(<<>>, <<data>>, "none")
       ELSE IF Len(data.bytes) > 0 THEN Effect(<<>>, <<data>>, "none")
       ELSE ZeroByteWarning
  ELSE Effect(<<>>, <<>>, "DeepgramError")

\* send, were its length test >= 0.
send_ForwardsZeroByte(rs, data) ==
  IF rs = LiveConnectionState.OPEN
  THEN IF data.kind = "string" THEN Effect(<<>>, <<data>>, "none")
       ELSE IF data.kind = "blob" THEN Effect(<<>>, <<data>>, "none")
       ELSE IF Len(data.bytes) >= 0 THEN Effect(<<>>, <<data>>, "none")
       ELSE ZeroByteWarning
  ELSE Effect(<<>>, <<>>, "DeepgramError")

\* send, were the zero-length test applied to text as well.
send_SkipsEmptyText(rs, data) ==
  IF rs = LiveConnectionState.OPEN
  THEN IF data.kind = "string" /\ Len(data.text) > 0 THEN Effect(<<>>, <<data>>, "none")
       ELSE IF data.kind = "blob" THEN Effect(<<>>, <<data>>, "none")
       ELSE IF Len(data.bytes) > 0 THEN Effect(<<>>, <<data>>, "none")
       ELSE ZeroByteWarning
  ELSE Effect(<<>>, <<>>, "DeepgramError")

send(rs, data) ==
  IF rs = LiveConnectionState.OPEN
  THEN IF data.kind = "string" THEN Effect(<<>>, <<data>>, "none")
       ELSE IF data.kind = "blob" THEN Effect(<<>>, <<data>>, "none")
       ELSE IF Len(data.bytes) > 0 THEN Effect(<<>>, <<data>>, "none")
       ELSE ZeroByteWarning
  ELSE Effect(<<>>, <<>>, "DeepgramError")

(***************************************************************************)
(* The transport.  Its send on a socket that is not open either takes the  *)
(* message or fails, as the transport chooses; the failure reaches the     *)
(* caller as the transport's own error.                                    *)
(***************************************************************************)
SocketSendOutcomes(rs, eff) ==
  IF eff.thrown # "none" THEN {eff.thrown}
  ELSE IF eff.sendCalls = <<>> \/ rs = LiveConnectionState.OPEN THEN {"none"}
  ELSE {"none", "TransportError"}

\* The transport's own moves of readyState.
SocketTransition(from, to) ==
  \/ from = LiveConnectionState.CONNECTING /\ to = LiveConnectionState.OPEN
  \/ from \in {LiveConnectionState.CONNECTING, LiveConnectionState.OPEN}
       /\ to = LiveConnectionState.CLOSING
  \/ from # LiveConnectionState.CLOSED /\ to = LiveConnectionState.CLOSED

(***************************************************************************)
(* Inputs.                                                                 *)
(***************************************************************************)
Discriminators ==
  {LiveTranscriptionEvents.Metadata, LiveTranscriptionEvents.Transcript,
   LiveTranscriptionEvents.UtteranceEnd, LiveTranscriptionEvents.SpeechStarted}

\* Values a frame may carry as its "type" member.
TypeValues ==
  {JStr(d) : d \in Discriminators} \cup
  {JStr("Results"), JStr("metadata"), JStr("Error"), JStr(""),
   JNull, JTrue, JNum("1"), JObj(<<>>), JArr(<<JStr("Metadata")>>)}

Hello == Member("text", JStr("hello"))

\* The documents the server's frames are written from; a member list may
\* repeat a key, as JSON text may.
FrameDocs ==
  {JNull, JTrue, JNum("1"), JStr("Metadata"), JArr(<<>>),
   JArr(<<JObj(<<Member("type", JStr("Metadata"))>>)>>),
   JObj(<<>>), JObj(<<Hello>>),
   JObj(<<Member("Type", JStr("Metadata"))>>),
   JObj(<<Member("payload", JObj(<<Member("type", JStr("Transcript"))>>))>>)} \cup
  {JObj(<<Member("type", tv)>>) : tv \in TypeValues} \cup
  {JObj(<<Member("type", tv), Hello>>) : tv \in TypeValues} \cup
  {JObj(<<Hello, Member("type", tv)>>) : tv \in TypeValues} \cup
  {JObj(<<Member("type", JStr(a)), Member("type", JStr(b))>>) :
     a \in {"Metadata", "Transcript", "Other"},
     b \in {"Metadata", "Transcript", "Other"}}

DropToken(text, i) == SubSeq(text, 1, i - 1) \o SubSeq(text, i + 1, Len(text))

\* Frame texts: the documents as written, every text that loses one token
\* on the way, the empty text and plain words.
FrameTexts ==
  {JSONstringify(d) : d \in FrameDocs} \cup
  UNION {{DropToken(JSONstringify(d), i) : i \in 1..Len(JSONstringify(d))} :
           d \in FrameDocs} \cup
  {<<>>, <<RawTok("not-json")>>}

\* event.data of a message: a string for a text frame, an ArrayBuffer of the
\* same text's bytes for a binary frame.
MessageEvents ==
  {MessageEvent(Data(kind, text, <<>>)) :
     kind \in {"string", "arraybuffer"}, text \in FrameTexts}

CloseEvents == {RawEvent("close", "1000", NoData), RawEvent("close", "1006", NoData)}
ErrorEvents ==
  {RawEvent("error", "ECONNREFUSED", NoData), RawEvent("error", "ECONNRESET", NoData)}

Bytes == {0, 255}
ByteSeqs == UNION {[1..n -> Bytes] : n \in 0..MaxBufLen}

\* Arguments of send: text, Blobs and buffers of every length up to MaxBufLen.
SendData ==
  {TextData(text) : text \in {<<>>, <<RawTok("hello")>>,
                              JSONstringify(CloseStreamMessage)}} \cup
  {Data(kind, <<>>, bytes) : kind \in {"blob", "buffer"}, bytes \in ByteSeqs}

\* Arguments of configure: LiveConfigOptions objects.
ConfigOptions ==
  {JObj(<<>>),
   JObj(<<Member("numerals", JTrue)>>),
   JObj(<<Member("punctuate", JTrue)>>),
   JObj(<<Member("numerals", JTrue), Member("punctuate", JTrue)>>),
   JObj(<<Member("type", JStr("KeepAlive"))>>)}

(***************************************************************************)
(* State and steps.                                                        *)
(***************************************************************************)
Op(op, data, ev, config) == [op |-> op, data |-> data, ev |-> ev, config |-> config]
NoOp == Op("new", NoData, NoEvent, JUndefined)
NoReturn == "void"

\* After the constructor: the socket is connecting, nothing has happened.
Init ==
  /\ readyState = LiveConnectionState.CONNECTING
  /\ socket = "w3cwebsocket"
  /\ lastOp = NoOp
  /\ emitted = <<>>
  /\ sendCalls = <<>>
  /\ thrown = "none"
  /\ returned = NoReturn
  /\ cbLog = <<>>
  /\ evLog = <<>>

\* A callback of the socket runs: it emits, and returns to the transport.
Callback(op, ev, em) ==
  /\ lastOp' = Op(op, NoData, ev, JUndefined)
  /\ emitted' = em
  /\ sendCalls' = <<>>
  /\ thrown' = "none"
  /\ returned' = NoReturn
  /\ socket' = socket

\* A call of the caller runs: it emits, calls _socket.send and returns or throws.
Call(op, data, config, eff) ==
  /\ lastOp' = Op(op, data, NoEvent, config)
  /\ emitted' = eff.emitted
  /\ sendCalls' = eff.sendCalls
  /\ \E outcome \in SocketSendOutcomes(readyState, eff) : thrown' = outcome
  /\ returned' = NoReturn
  /\ readyState' = readyState
  /\ socket' = socket

SocketOpen ==
  /\ SocketTransition(readyState, LiveConnectionState.OPEN)
  /\ readyState' = LiveConnectionState.OPEN
  /\ Callback("onopen", NoEvent, OnOpen)

\* The socket starts its closing handshake; no callback runs.
SocketClosing ==
  /\ SocketTransition(readyState, LiveConnectionState.CLOSING)
  /\ readyState' = LiveConnectionState.CLOSING
  /\ Callback("closing", NoEvent, <<>>)

SocketClose(event) ==
  /\ SocketTransition(readyState, LiveConnectionState.CLOSED)
  /\ readyState' = LiveConnectionState.CLOSED
  /\ Callback("onclose", event, OnClose(event))

SocketError(event) ==
  /\ readyState' = readyState
  /\ Callback("onerror", event, OnError(event))

\* Frames arrive while the socket is open or closing.
SocketMessage(event) ==
  /\ readyState \in {LiveConnectionState.OPEN, LiveConnectionState.CLOSING}
  /\ readyState' = readyState
  /\ Callback("onmessage", event, OnMessage(event))

Configure(config) == Call("configure", NoData, config, configure(readyState, config))

KeepAlive == Call("keepAlive", NoData, JUndefined, keepAlive(readyState))

Finish == Call("finish", NoData, JUndefined, finish(readyState))

Send(data) == Call("send", data, JUndefined, send(readyState, data))

GetReadyState ==
  /\ lastOp' = Op("getReadyState", NoData, NoEvent, JUndefined)
  /\ returned' = getReadyState(readyState)
  /\ emitted' = <<>>
  /\ sendCalls' = <<>>
  /\ thrown' = "none"
  /\ readyState' = readyState
  /\ socket' = socket

NoLog == UNCHANGED <<cbLog, evLog>>

Next ==
  \/ SocketOpen /\ NoLog
  \/ SocketClosing /\ NoLog
  \/ \E event \in CloseEvents : SocketClose(event) /\ NoLog
  \/ \E event \in ErrorEvents : SocketError(event) /\ NoLog
  \/ \E event \in MessageEvents : SocketMessage(event) /\ NoLog
  \/ \E config \in ConfigOptions : Configure(config) /\ NoLog
  \/ KeepAlive /\ NoLog
  \/ Finish /\ NoLog
  \/ \E data \in SendData : Send(data) /\ NoLog
  \/ GetReadyState /\ NoLog

Spec == Init /\ [][Next]_vars

TypeOK ==
  /\ readyState \in ConnectionStates
  /\ thrown \in {"none", "DeepgramError", "TransportError"}
  /\ Len(emitted) <= 4
  /\ Len(sendCalls) <= 1

(***************************************************************************)
(* The relay observed over a whole session: cbLog records the lifecycle    *)
(* callbacks the socket made, evLog the Open, Close and Error events the   *)
(* adapter emitted, in order, for the first MaxHist events of a session.   *)
(***************************************************************************)
LifecycleOps == {"onopen", "onclose", "onerror"}

IsLifecycleNamed(e) ==
  e.name \in {LiveTranscriptionEvents.Open, LiveTranscriptionEvents.Close,
              LiveTranscriptionEvents.Error}

LogStep ==
  /\ Len(evLog) + Len(SelectSeq(emitted', IsLifecycleNamed)) <= MaxHist
  /\ evLog' = evLog \o SelectSeq(emitted', IsLifecycleNamed)
  /\ cbLog' = IF lastOp'.op \in LifecycleOps THEN Append(cbLog, lastOp') ELSE cbLog

RelayMessageEvents ==
  {MessageEvent(TextData(text)) :
     text \in {JSONstringify(JObj(<<Member("type", JStr("Transcript")), Hello>>)),
               JSONstringify(JObj(<<Member("type", JStr("Other"))>>)),
               <<RawTok("not-json")>>}}

RelaySendData == {Data("buffer", <<>>, <<>>), Data("buffer", <<>>, <<255>>)}

RelayNext ==
  \/ SocketOpen /\ LogStep
  \/ SocketClosing /\ LogStep
  \/ \E event \in CloseEvents : SocketClose(event) /\ LogStep
  \/ \E event \in ErrorEvents : SocketError(event) /\ LogStep
  \/ \E event \in RelayMessageEvents : SocketMessage(event) /\ LogStep
  \/ Configure(JObj(<<>>)) /\ LogStep
  \/ KeepAlive /\ LogStep
  \/ Finish /\ LogStep
  \/ \E data \in RelaySendData : Send(data) /\ LogStep
  \/ GetReadyState /\ LogStep

RelaySpec == Init /\ [][RelayNext]_vars

(***************************************************************************)
(* Properties.                                                             *)
(***************************************************************************)
\* What the last handler parsed: JSON.parse of the frame's text.
LastParse == JSONparse(ToString(lastOp.ev.data))
LastType == GetProp(LastParse.val, "type")
Recognized == {"Metadata", "Transcript", "UtteranceEnd", "SpeechStarted"}
IsRecognized(v) == \E d \in Recognized : v = JStr(d)
EventNames(evs) == {evs[i].name : i \in 1..Len(evs)}

\* C1: send in any state other than Open throws the connection-not-open
\* error, calls _socket.send not at all and emits nothing, whatever data is.
C1_SendNotOpenFails ==
  (lastOp.op = "send" /\ readyState \in {"Connecting", "Closing", "Closed"})
    => /\ thrown = "DeepgramError"
       /\ sendCalls = <<>>
       /\ emitted = <<>>

C1_Witness ==
  /\ lastOp.op = "send"
  /\ readyState = "Closing"
  /\ lastOp.data = Data("buffer", <<>>, <<>>)
  /\ thrown = "DeepgramError"

\* C2: a frame that parses and whose type is one of the four discriminators
\* yields exactly one event, named as the type, carrying the parsed object.
C2_RecognizedFrameOneEvent ==
  (lastOp.op = "onmessage" /\ LastParse.ok /\ IsRecognized(LastType))
    => /\ emitted = <<Event(LastType.s, PJson(LastParse.val))>>
       /\ thrown = "none"

C2_Witness ==
  /\ lastOp.op = "onmessage"
  /\ ToString(lastOp.ev.data) =
       <<LBRACE, StrTok("type"), COLON, StrTok("Transcript"), COMMA,
         StrTok("text"), COLON, StrTok("hello"), RBRACE>>
  /\ Len(emitted) = 1
  /\ emitted[1].name = "Transcript"
  /\ emitted[1].payload.json =
       JObj(<<Member("type", JStr("Transcript")), Member("text", JStr("hello"))>>)

\* C3: a frame that does not parse yields exactly one Error event and no
\* other; the handler returns, writes nothing and leaves the connection.
C3_State ==
  (lastOp.op = "onmessage" /\ ~LastParse.ok)
    => /\ Len(emitted) = 1
       /\ emitted[1].name = "Error"
       /\ thrown = "none"
       /\ sendCalls = <<>>

C3_Step ==
  (lastOp'.op = "onmessage" /\ ~JSONparse(ToString(lastOp'.ev.data)).ok)
    => readyState' = readyState /\ socket' = socket

C3_UnparseableFrameOneError == []C3_State /\ [][C3_Step]_vars

C3_Witness ==
  /\ lastOp.op = "onmessage"
  /\ lastOp.ev.data = TextData(<<RawTok("not-json")>>)
  /\ EventNames(emitted) = {"Error"}

\* C4: a frame that parses, of any JSON value, whose type is absent or not
\* one of the four discriminators, yields no event at all.
C4_UnrecognizedFrameNoEvent ==
  (lastOp.op = "onmessage" /\ LastParse.ok /\ ~IsRecognized(LastType))
    => emitted = <<>>

\* C5: send of a zero-length buffer on an open socket emits exactly one
\* Warning with the fixed hint, calls _socket.send not at all, throws nothing.
C5_ZeroByteWarns ==
  (lastOp.op = "send" /\ readyState = "Open"
     /\ lastOp.data.kind = "buffer" /\ Len(lastOp.data.bytes) = 0)
    => /\ emitted = <<Event("Warning", PText(ZeroByteMessage))>>
       /\ sendCalls = <<>>
       /\ thrown = "none"

C5_Witness ==
  /\ lastOp.op = "send"
  /\ readyState = "Open"
  /\ lastOp.data = Data("buffer", <<>>, <<>>)
  /\ EventNames(emitted) = {"Warning"}

\* C6: send of text, or of a buffer of positive length, on an open socket
\* calls _socket.send exactly once with the very data and emits nothing.
C6_OpenSendForwards ==
  (lastOp.op = "send" /\ readyState = "Open"
     /\ \/ lastOp.data.kind = "string"
        \/ lastOp.data.kind = "buffer" /\ Len(lastOp.data.bytes) > 0)
    => /\ sendCalls = <<lastOp.data>>
       /\ emitted = <<>>
       /\ thrown = "none"

C6_Witness ==
  /\ lastOp.op = "send"
  /\ readyState = "Open"
  /\ lastOp.data.kind = "buffer"
  /\ Len(lastOp.data.bytes) = MaxBufLen
  /\ sendCalls = <<Data("buffer", <<>>, lastOp.data.bytes)>>

\* C7: in every connection state finish, keepAlive and configure call
\* _socket.send exactly once, with {"type":"CloseStream"}, {"type":"KeepAlive"}
\* and {"type":"Configure","processors":options}; none throws the
\* connection-not-open error or emits an event.
TypeOnly(name) == <<LBRACE, StrTok("type"), COLON, StrTok(name), RBRACE>>

C7_ControlText ==
  IF lastOp.op = "finish" THEN TypeOnly("CloseStream")
  ELSE IF lastOp.op = "keepAlive" THEN TypeOnly("KeepAlive")
  ELSE <<LBRACE, StrTok("type"), COLON, StrTok("Configure"), COMMA,
         StrTok("processors"), COLON>> \o JSONstringify(lastOp.config) \o <<RBRACE>>

C7_ControlUnconditional ==
  lastOp.op \in {"finish", "keepAlive", "configure"}
    => /\ sendCalls = <<TextData(C7_ControlText)>>
       /\ thrown # "DeepgramError"
       /\ emitted = <<>>
       /\ lastOp.op = "configure" =>
            GetProp(JSONparse(sendCalls[1].text).val, "processors") = lastOp.config

C7_Witness ==
  /\ lastOp.op = "finish"
  /\ readyState = "Closed"
  /\ Len(sendCalls) = 1
  /\ JSONparse(sendCalls[1].text).val = JObj(<<Member("type", JStr("CloseStream"))>>)

\* C8 as stated: the Error event of a parse failure carries the raw event,
\* the message "Unable to parse frame as JSON" and the caught parse error.
C8_AsStated ==
  (lastOp.op = "onmessage" /\ ~LastParse.ok)
    => /\ emitted # <<>>
       /\ emitted[1].payload =
            PErrorInfo(lastOp.ev, "Unable to parse frame as JSON", "SyntaxError")

\* C8: the Error event of a parse failure carries the raw event, the fixed
\* message of the source and the caught parse error.
C8_ParseErrorPayload ==
  (lastOp.op = "onmessage" /\ ~LastParse.ok)
    => /\ emitted # <<>>
       /\ emitted[1].name = "Error"
       /\ emitted[1].payload =
            PErrorInfo(lastOp.ev, "Unable to parse 'data' as JSON.", "SyntaxError")

C8_Witness ==
  /\ lastOp.op = "onmessage"
  /\ lastOp.ev.data.kind = "string"
  /\ ToString(lastOp.ev.data) = <<LBRACE, StrTok("type"), COLON, RBRACE>>
  /\ Len(emitted) = 1
  /\ emitted[1].payload.ev = lastOp.ev
  /\ emitted[1].payload.err = "SyntaxError"

\* C9: no caller operation and no inbound dispatch changes readyState or
\* replaces the socket; readyState moves only forward along Connecting,
\* Open, Closing, Closed, by the transport; getReadyState returns the
\* current readyState and does nothing else.
StateRank == [Connecting |-> 0, Open |-> 1, Closing |-> 2, Closed |-> 3]
AdapterOps ==
  {"send", "configure", "keepAlive", "finish", "getReadyState", "onmessage"}

C9_Step ==
  /\ socket' = socket
  /\ lastOp'.op \in AdapterOps => readyState' = readyState
  /\ readyState' # readyState => StateRank[readyState'] > StateRank[readyState]
  /\ lastOp'.op = "getReadyState" =>
       /\ returned' = readyState
       /\ emitted' = <<>>
       /\ sendCalls' = <<>>
       /\ thrown' = "none"

C9_AdapterLeavesConnection == [][C9_Step]_vars

C9_Witness ==
  /\ lastOp.op = "getReadyState"
  /\ returned = "Closing"
  /\ readyState = "Closing"

\* C10: each lifecycle callback is relayed as exactly one event (Open with
\* the adapter, Close with the close event, Error with the error event) and
\* no write; an error callback leaves readyState; so the lifecycle events
\* emitted are the callbacks made, in order.
Relayed(cb) ==
  IF cb.op = "onopen" THEN Event("Open", PThis)
  ELSE IF cb.op = "onclose" THEN Event("Close", PRaw(cb.ev))
  ELSE Event("Error", PRaw(cb.ev))

IsRelayed(e) == e.payload.kind # "object"

C10_State ==
  /\ lastOp.op \in LifecycleOps =>
       /\ emitted = <<Relayed(lastOp)>>
       /\ sendCalls = <<>>
       /\ thrown = "none"
  /\ SelectSeq(evLog, IsRelayed) = [i \in 1..Len(cbLog) |-> Relayed(cbLog[i])]

C10_Step == lastOp'.op = "onerror" => readyState' = readyState

C10_LifecycleRelayed == []C10_State /\ [][C10_Step]_vars

C10_Witness ==
  /\ Len(cbLog) = 3
  /\ cbLog[1].op = "onopen"
  /\ cbLog[2].op = "onclose"
  /\ cbLog[3].op = "onerror"
  /\ Len(evLog) = 4
  /\ lastOp.op = "onerror"
  /\ readyState = "Closed"

====
